---- MODULE Spec2Model ----
(***************************************************************************)
(* A model of the AuctionManager client (contracts/auctions/               *)
(* AuctionManager.py: AuctionManager, Auction, Auctionlet) and of the      *)
(* Order JSON wire format exercised by tests/pymaker/test_zrx.py.          *)
(*                                                                         *)
(* The Ethereum node and the auction contract are the environment: what a  *)
(* contract call returns, whether it reverts, what receipt a transaction   *)
(* gets and which logs it emits are nondeterministic inputs of the         *)
(* actions.  Python's None is the empty sequence <<>> wherever a value is  *)
(* optional (an option is <<>> or <<x>>); handlers are named by strings    *)
(* and the unset handler is the string "None".                             *)
(***************************************************************************)
EXTENDS Integers, Sequences, FiniteSets, TLC

\* ------------------------------------------------------------------ bounds

\* The chain holds at most MaxLogs subscribed logs (one per emitting transaction).
MaxLogs == 2

\* ----------------------------------------------------------------- domains

None == "None"
Handlers == {"h1", "h2"}
HandlerValues == Handlers \cup {None}
Events == {"LogNewAuction", "LogBid", "LogSplit", "LogAuctionReversal"}

AuctionIds == {1, 2}
AuctionletIds == {1, 2}
\* Wad values (how_much, quantity), as their integer .value
Amounts == {5, 7}
\* number_of_historical_blocks
Lookbacks == 0 .. 2

\* getAuctionInfo results: (creator, selling, buying, start_bid, min_increase,
\* min_decrease, sell_amount, ttl, reversed, unsold)
AuctionInfos ==
    { <<11, 21, 22, 1, 5, 5, 100, 3600, FALSE, FALSE>>,
      <<11, 21, 22, 1, 5, 5, 40, 3600, TRUE, FALSE>> }

\* getAuctionletInfo results: (auction_id, last_bidder, last_bid_time,
\* buy_amount, sell_amount, unclaimed, base)
AuctionletInfos ==
    { <<1, 12, 1000, 3, 9, TRUE, TRUE>>,
      <<2, 13, 2000, 4, 6, TRUE, FALSE>> }

\* What a contract read call does: revert, or return a value.
Reverts == "revert"

\* ------------------------------------------------------------------- state

VARIABLES
    is_splitting,                   \* AuctionManager.is_splitting
    _our_tx_hashes,                 \* AuctionManager._our_tx_hashes
    _on_new_auction_handler,        \* the four handler slots
    _on_bid_handler,
    _on_split_handler,
    _on_auction_reversal_handler,
    held,                           \* the caller's Auctionlet object: <<>> or <<auctionlet>>
    chainAuction,                   \* contract state: auction id -> <<>> (call reverts) or <<info>>
    chainLogs,                      \* the subscribed logs the contract has emitted, oldest first
    feedPos,                        \* how many of chainLogs the subscription has delivered
    blockNumber,                    \* web3.eth.blockNumber
    op,                             \* the last operation: its inputs and what it did
    order,                          \* the Order at hand: <<>> or <<order>>
    json_order,                     \* the JSON object at hand: <<>> or <<object>>
    parsed,                         \* what Order.from_json made of it: <<>> or <<order>>
    other                           \* a second Order, compared with the first: <<>> or <<order>>

vars == << is_splitting, _our_tx_hashes, _on_new_auction_handler, _on_bid_handler,
           _on_split_handler, _on_auction_reversal_handler, held, chainAuction,
           chainLogs, feedPos, blockNumber, op, order, json_order, parsed, other >>

handlerVars == << _on_new_auction_handler, _on_bid_handler, _on_split_handler,
                  _on_auction_reversal_handler >>
chainVars == << chainAuction, chainLogs, feedPos, blockNumber >>
orderVars == << order, json_order, parsed, other >>
clientVars == << is_splitting, _our_tx_hashes, handlerVars, held, chainVars >>

\* The record every operation leaves in op (fields it does not use keep these values).
\*   ret: "True", "False", "None", "Auctionlet", "Auction", "raised" (an exception
\*        reached the caller) or "void";  obj: the object returned, if any;
\*   calls: the contract calls and transactions issued, in order;
\*   waited: _wait_for_receipt was called;  tx_hash: what transact() returned;
\*   callbacks: the handler / callback invocations made, in order;
\*   emitted: the logs the transaction emitted on the chain;
\*   log: the log delivered, or the subscribed log the transaction emitted;
\*   cached: the parent auction returned came from the cache;
\*   handler: the handler passed to a registration.
NoOp ==
    [ name |-> "init", id |-> 0, how_much |-> 0, quantity |-> <<>>, outcome |-> "",
      ret |-> "void", obj |-> <<>>, calls |-> <<>>, waited |-> FALSE, tx_hash |-> <<>>,
      emitted |-> <<>>, callbacks |-> <<>>, log |-> <<>>, cached |-> FALSE,
      handler |-> <<>> ]

PyBool(b) == IF b THEN "True" ELSE "False"

\* ------------------------------------------------------- Auction, Auctionlet

\* Auction.__init__
Auction(auction_id, auction_info) ==
    [ auction_id |-> auction_id,
      creator |-> auction_info[1],
      selling |-> auction_info[2],
      buying |-> auction_info[3],
      start_bid |-> auction_info[4],
      min_increase |-> auction_info[5],
      min_decrease |-> auction_info[6],
      sell_amount |-> auction_info[7],
      ttl |-> auction_info[8],
      reversed |-> auction_info[9],
      unsold |-> auction_info[10] ]

\* Auctionlet.__init__
Auctionlet(auctionlet_id, auctionlet_info) ==
    [ _auction |-> <<>>,
      auctionlet_id |-> auctionlet_id,
      auction_id |-> auctionlet_info[1],
      last_bidder |-> auctionlet_info[2],
      last_bid_time |-> auctionlet_info[3],
      buy_amount |-> auctionlet_info[4],
      sell_amount |-> auctionlet_info[5],
      unclaimed |-> auctionlet_info[6],
      base |-> auctionlet_info[7] ]

\* ------------------------------------------------------------------- Init

ClientInit ==
    /\ _our_tx_hashes = {}
    /\ _on_new_auction_handler = None
    /\ _on_bid_handler = None
    /\ _on_split_handler = None
    /\ _on_auction_reversal_handler = None
    /\ held = <<>>
    /\ chainAuction = [a \in AuctionIds |-> <<>>]
    /\ chainLogs = <<>>
    /\ feedPos = 0
    /\ blockNumber = 0
    /\ op = NoOp

Init ==
    /\ is_splitting \in BOOLEAN
    /\ ClientInit
    /\ order = <<>>
    /\ json_order = <<>>
    /\ parsed = <<>>
    /\ other = <<>>

\* ------------------------------------------------- handler registration

on_new_auction(handler) ==
    /\ _on_new_auction_handler' = handler
    /\ op' = [NoOp EXCEPT !.name = "on_new_auction", !.handler = << handler >>]
    /\ UNCHANGED << orderVars, is_splitting, _our_tx_hashes, _on_bid_handler, _on_split_handler,
                    _on_auction_reversal_handler, held, chainVars >>

\* on_bid that keeps a handler already registered.
on_bid_KeepsFirst(handler) ==
    /\ _on_bid_handler' = IF _on_bid_handler = None THEN handler ELSE _on_bid_handler
    /\ op' = [NoOp EXCEPT !.name = "on_bid", !.handler = << handler >>]
    /\ UNCHANGED << orderVars, is_splitting, _our_tx_hashes, _on_new_auction_handler,
                    _on_split_handler, _on_auction_reversal_handler, held, chainVars >>

on_bid(handler) ==
    /\ _on_bid_handler' = handler
    /\ op' = [NoOp EXCEPT !.name = "on_bid", !.handler = << handler >>]
    /\ UNCHANGED << orderVars, is_splitting, _our_tx_hashes, _on_new_auction_handler,
                    _on_split_handler, _on_auction_reversal_handler, held, chainVars >>

on_split(handler) ==
    /\ _on_split_handler' = handler
    /\ op' = [NoOp EXCEPT !.name = "on_split", !.handler = << handler >>]
    /\ UNCHANGED << orderVars, is_splitting, _our_tx_hashes, _on_new_auction_handler,
                    _on_bid_handler, _on_auction_reversal_handler, held, chainVars >>

on_auction_reversal(handler) ==
    /\ _on_auction_reversal_handler' = handler
    /\ op' = [NoOp EXCEPT !.name = "on_auction_reversal", !.handler = << handler >>]
    /\ UNCHANGED << orderVars, is_splitting, _our_tx_hashes, _on_new_auction_handler,
                    _on_bid_handler, _on_split_handler, held, chainVars >>


\* ------------------------------------------------------------ the chain

\* Auctionlet identifiers are handed out by the contract in order: a LogNewAuction
\* log creates one (base_id), a LogSplit log creates two (new_id and split_id). The
\* auctionlets of AuctionletIds exist when the client is constructed.
RECURSIVE IdsCreated(_)
IdsCreated(logs) ==
    IF logs = <<>> THEN 0
    ELSE IdsCreated(Tail(logs))
         + (CASE Head(logs).event = "LogNewAuction" -> 1
              [] Head(logs).event = "LogSplit" -> 2
              [] OTHER -> 0)

NextId(logs) == Cardinality(AuctionletIds) + IdsCreated(logs) + 1

\* log['args'] of a log of `event` about identifier `id`, emitted after `logs`.
LogArgs(event, id, logs) ==
    CASE event = "LogNewAuction" -> [base_id |-> NextId(logs)]
      [] event = "LogBid" -> [auctionlet_id |-> id]
      [] event = "LogSplit" -> [base_id |-> id,
                                new_id |-> NextId(logs),
                                split_id |-> NextId(logs) + 1]
      [] event = "LogAuctionReversal" -> [auction_id |-> id]

\* The log a transaction emits. Every emitting transaction is mined in a block of
\* its own and emits one subscribed log, so its transactionHash and its block are
\* its place in chainLogs; `ours` records, for the claims only, whether this client
\* submitted the transaction.
NewLog(event, id, ours) ==
    [ event |-> event,
      transactionHash |-> Len(chainLogs) + 1,
      blockNumber |-> blockNumber + 1,
      args |-> LogArgs(event, id, chainLogs),
      ours |-> ours ]

\* Somebody else's transaction emits a log.
ForeignTx(event, id) ==
    /\ Len(chainLogs) < MaxLogs
    /\ event = "LogNewAuction" => id = 1
    /\ event = "LogAuctionReversal" => id \in AuctionIds
    /\ chainLogs' = Append(chainLogs, NewLog(event, id, FALSE))
    /\ blockNumber' = blockNumber + 1
    /\ op' = [NoOp EXCEPT !.name = "chain"]
    /\ UNCHANGED << orderVars, is_splitting, _our_tx_hashes, handlerVars, held, chainAuction,
                    feedPos >>

\* The auction changes on the chain (or disappears, or appears).
ChainAuctionChange(auction_id, v) ==
    /\ v # chainAuction[auction_id]
    /\ chainAuction' = [chainAuction EXCEPT ![auction_id] = v]
    /\ op' = [NoOp EXCEPT !.name = "chain"]
    /\ UNCHANGED << orderVars, is_splitting, _our_tx_hashes, handlerVars, held, chainLogs,
                    feedPos, blockNumber >>

\* ------------------------------------------------------------ dispatchers

Invocation(handler, args) == [handler |-> handler, args |-> args]

\* AuctionManager._on_new_auction: the handler invocations it makes
_on_new_auction(hashes, handler, log) ==
    IF log.transactionHash \notin hashes
    THEN IF handler # None
         THEN << Invocation(handler, <<log.args.base_id>>) >>
         ELSE <<>>
    ELSE <<>>

\* AuctionManager._on_bid
_on_bid(hashes, handler, log) ==
    IF log.transactionHash \notin hashes
    THEN IF handler # None
         THEN << Invocation(handler, <<log.args.auctionlet_id>>) >>
         ELSE <<>>
    ELSE <<>>

\* _on_split with new_id and split_id exchanged in the handler call.
_on_split_ArgsSwapped(hashes, handler, log) ==
    IF handler # None
    THEN << Invocation(handler, <<log.args.base_id, log.args.split_id, log.args.new_id>>) >>
    ELSE <<>>

\* AuctionManager._on_split
_on_split(hashes, handler, log) ==
    IF handler # None
    THEN << Invocation(handler, <<log.args.base_id, log.args.new_id, log.args.split_id>>) >>
    ELSE <<>>

\* AuctionManager._on_auction_reversal
_on_auction_reversal(hashes, handler, log) ==
    IF handler # None
    THEN << Invocation(handler, <<log.args.auction_id>>) >>
    ELSE <<>>

\* The subscriptions of AuctionManager.__init__: each log goes to its dispatcher.
Dispatch(log) ==
    CASE log.event = "LogNewAuction" ->
            _on_new_auction(_our_tx_hashes, _on_new_auction_handler, log)
      [] log.event = "LogBid" ->
            _on_bid(_our_tx_hashes, _on_bid_handler, log)
      [] log.event = "LogSplit" ->
            _on_split(_our_tx_hashes, _on_split_handler, log)
      [] log.event = "LogAuctionReversal" ->
            _on_auction_reversal(_our_tx_hashes, _on_auction_reversal_handler, log)

\* The node's subscription feed delivers the next log.
DeliverLog ==
    /\ feedPos < Len(chainLogs)
    /\ feedPos' = feedPos + 1
    /\ op' = [NoOp EXCEPT !.name = "deliver",
                          !.log = << chainLogs[feedPos + 1] >>,
                          !.callbacks = Dispatch(chainLogs[feedPos + 1])]
    /\ UNCHANGED << orderVars, is_splitting, _our_tx_hashes, handlerVars, held, chainAuction,
                    chainLogs, blockNumber >>


\* -------------------------------------------------------- read operations

Call(fn, args) == [fn |-> fn, args |-> args]

\* get_auction answering from the first auction info it knows instead of the call's.
get_auction_Stale(auction_id, result) ==
    IF result = <<>> THEN <<>>
    ELSE << Auction(auction_id, <<11, 21, 22, 1, 5, 5, 100, 3600, FALSE, FALSE>>) >>

\* AuctionManager.get_auction: `result` is what getAuctionInfo did, <<>> (it raised)
\* or <<auction_info>>. Nothing is caught: <<>> means the exception reaches the caller.
get_auction(auction_id, result) ==
    IF result = <<>> THEN <<>> ELSE << Auction(auction_id, result[1]) >>

\* AuctionManager.get_auctionlet: `result` is what getAuctionletInfo did, <<>> (it
\* reverted) or <<auctionlet_info>>. Returns None (<<>>) or <<the Auctionlet>>.
get_auctionlet(auctionlet_id, result) ==
    IF result = <<>> THEN <<>> ELSE << Auctionlet(auctionlet_id, result[1]) >>

\* _is_auctionlet_expired without the try: the revert reaches the caller.
_is_auctionlet_expired_NoTry(result) ==
    IF result = Reverts THEN "raised" ELSE result

\* AuctionManager._is_auctionlet_expired: `result` is what isExpired did, "revert",
\* "True" or "False".
_is_auctionlet_expired(result) ==
    IF result = Reverts THEN "None" ELSE result

GetAuction(auction_id) ==
    LET got == get_auction(auction_id, chainAuction[auction_id]) IN
    /\ op' = [NoOp EXCEPT !.name = "get_auction",
                          !.id = auction_id,
                          !.calls = << Call("getAuctionInfo", <<auction_id>>) >>,
                          !.ret = IF got = <<>> THEN "raised" ELSE "Auction",
                          !.obj = got]
    /\ UNCHANGED << orderVars, is_splitting, _our_tx_hashes, handlerVars, held, chainVars >>

GetAuctionlet(auctionlet_id, result) ==
    LET got == get_auctionlet(auctionlet_id, result) IN
    /\ op' = [NoOp EXCEPT !.name = "get_auctionlet",
                          !.id = auctionlet_id,
                          !.outcome = IF result = <<>> THEN Reverts ELSE "ok",
                          !.calls = << Call("getAuctionletInfo", <<auctionlet_id>>) >>,
                          !.ret = IF got = <<>> THEN "None" ELSE "Auctionlet",
                          !.obj = got]
    /\ held' = IF got = <<>> THEN held ELSE got
    /\ UNCHANGED << orderVars, is_splitting, _our_tx_hashes, handlerVars, chainVars >>

\* Auctionlet.is_expired
IsExpired(result) ==
    /\ held # <<>>
    /\ op' = [NoOp EXCEPT !.name = "is_expired",
                          !.id = held[1].auctionlet_id,
                          !.outcome = result,
                          !.calls = << Call("isExpired", <<held[1].auctionlet_id>>) >>,
                          !.ret = _is_auctionlet_expired(result)]
    /\ UNCHANGED << orderVars, is_splitting, _our_tx_hashes, handlerVars, held, chainVars >>

\* Auctionlet.get_auction without the cache test.
AuctionletGetAuction_AlwaysQuery(auctionlet) == TRUE

\* Auctionlet.get_auction: `if self._auction is None`, the test that sends it to the
\* contract.
AuctionletGetAuction_query(auctionlet) == auctionlet._auction = <<>>

AuctionletGetAuction ==
    /\ held # <<>>
    /\ LET self == held[1]
           query == AuctionletGetAuction_query(self)
           got == IF query
                  THEN get_auction(self.auction_id, chainAuction[self.auction_id])
                  ELSE self._auction
       IN /\ held' = IF got = <<>> THEN held ELSE << [self EXCEPT !._auction = got] >>
          /\ op' = [NoOp EXCEPT
                        !.name = "auctionlet.get_auction",
                        !.id = self.auction_id,
                        !.calls = IF query
                                  THEN << Call("getAuctionInfo", <<self.auction_id>>) >>
                                  ELSE <<>>,
                        !.cached = ~query,
                        !.ret = IF got = <<>> THEN "raised" ELSE "Auction",
                        !.obj = got]
    /\ UNCHANGED << orderVars, is_splitting, _our_tx_hashes, handlerVars, chainVars >>

\* Auctionlet.can_split
CanSplit ==
    /\ held # <<>>
    /\ op' = [NoOp EXCEPT !.name = "can_split", !.ret = PyBool(is_splitting)]
    /\ UNCHANGED << orderVars, is_splitting, _our_tx_hashes, handlerVars, held, chainVars >>


\* ------------------------------------------------------------ transactions

\* How a submitted transaction goes, as the client sees it: transact() raises (a
\* revert at gas estimation, a network error), _wait_for_receipt raises, or a
\* receipt comes back: None, one without a 'logs' key, one whose 'logs' is None,
\* or a well-formed one listing the logs the transaction emitted (none after a
\* revert on the chain).
TxHows == { "submit_raises", "wait_raises", "receipt_none", "receipt_no_logs_key",
            "receipt_logs_none", "receipt_ok" }

\* The receipt _wait_for_receipt returns: <<>> is None; 'logs' is <<>> (None) or
\* <<the list>>.
ReceiptOf(how, emitted) ==
    CASE how = "receipt_none" -> <<>>
      [] how = "receipt_no_logs_key" -> << [hasLogs |-> FALSE, logs |-> <<>>] >>
      [] how = "receipt_logs_none" -> << [hasLogs |-> TRUE, logs |-> <<>>] >>
      [] how = "receipt_ok" -> << [hasLogs |-> TRUE, logs |-> << emitted >>] >>

Raised == [raised |-> TRUE, value |-> FALSE]
Returned(v) == [raised |-> FALSE, value |-> v]

\* ReceiptLogsPresent with len(receipt_logs) >= 0 for len(receipt_logs) > 0.
ReceiptLogsPresent_EmptyCounts(receipt) ==
    IF receipt = <<>> THEN Raised
    ELSE IF ~receipt[1].hasLogs THEN Raised
    ELSE Returned(receipt[1].logs # <<>> /\ Len(receipt[1].logs[1]) >= 0)

\* receipt['logs'], then (receipt_logs is not None) and (len(receipt_logs) > 0)
ReceiptLogsPresent(receipt) ==
    IF receipt = <<>> THEN Raised                  \* None['logs']: TypeError
    ELSE IF ~receipt[1].hasLogs THEN Raised        \* KeyError
    ELSE Returned(receipt[1].logs # <<>> /\ Len(receipt[1].logs[1]) > 0)

\* The try block of _claim and of bid, from the transact() call on.
TryTransact(how, emitted) ==
    IF how \in {"submit_raises", "wait_raises"} THEN Raised
    ELSE ReceiptLogsPresent(ReceiptOf(how, emitted))

\* try: ... except: return False
ExceptReturnFalse(body) ==
    IF body.raised THEN "False" ELSE PyBool(body.value)

\* BidPlan without the rejection of a quantity on a non-splitting manager: the
\* quantity is ignored and the two-argument bid submitted.
BidPlan_NoRejection(splitting, self, how_much, quantity) ==
    IF ~splitting
    THEN << Call("bid", <<self.auctionlet_id, how_much>>) >>
    ELSE IF quantity = <<>>
         THEN << Call("bid", <<self.auctionlet_id, how_much, self.sell_amount>>) >>
         ELSE << Call("bid", <<self.auctionlet_id, how_much, quantity[1]>>) >>

\* BidPlan with the two is_splitting branches of a full bid exchanged.
BidPlan_BranchesSwapped(splitting, self, how_much, quantity) ==
    IF quantity = <<>>
    THEN IF ~splitting
         THEN << Call("bid", <<self.auctionlet_id, how_much, self.sell_amount>>) >>
         ELSE << Call("bid", <<self.auctionlet_id, how_much>>) >>
    ELSE IF ~splitting
         THEN <<>>
         ELSE << Call("bid", <<self.auctionlet_id, how_much, quantity[1]>>) >>

\* Auctionlet.bid, up to the transact() call: <<>> when it returns False at once,
\* else <<the transaction it submits>>. quantity is <<>> (None) or <<value>>.
BidPlan(splitting, self, how_much, quantity) ==
    IF quantity = <<>>
    THEN IF splitting
         THEN << Call("bid", <<self.auctionlet_id, how_much, self.sell_amount>>) >>
         ELSE << Call("bid", <<self.auctionlet_id, how_much>>) >>
    ELSE IF ~splitting
         THEN <<>>
         ELSE << Call("bid", <<self.auctionlet_id, how_much, quantity[1]>>) >>

\* bid with line 177 in force: the hash transact() returned is recorded.
bid_our_tx_hashes_Recorded(hashes, tx_hash) == hashes \cup {tx_hash}

\* Line 177 of Auctionlet.bid is commented out: the hash is not recorded.
bid_our_tx_hashes(hashes, tx_hash) == hashes

\* _claim never touches the set.
claim_our_tx_hashes(hashes, tx_hash) == hashes

\* bid refreshing the snapshot's sell_amount with the quantity it bid on.
AuctionletAfterBid_SellAmountRefreshed(self, quantity) ==
    [self EXCEPT !.sell_amount = IF quantity = <<>> THEN 0 ELSE quantity[1]]

\* The Auctionlet object after bid(how_much, quantity): bid assigns to no attribute
\* of self.
AuctionletAfterBid(self, quantity) == self

\* The Auctionlet object after claim(): neither claim nor _claim assigns to it.
AuctionletAfterClaim(self) == self

\* The logs a transaction may emit: a bid emits LogBid, a three-argument bid may
\* split instead; a claim moves tokens (logs of the token contracts, not subscribed).
BidLogs(call) ==
    {<<>>, <<"LogBid">>} \cup (IF Len(call.args) = 3 THEN {<<"LogSplit">>} ELSE {})
ClaimLogs == {<<>>, <<"Transfer">>}

Subscribed(emitted) == emitted # <<>> /\ emitted[1] \in Events

\* The hash transact() returns: that of the log the transaction emits, 0 for a
\* transaction that emits no subscribed log (hashes are only compared with logs').
TxHash(emitted) == IF Subscribed(emitted) THEN Len(chainLogs) + 1 ELSE 0

\* The chain after the transaction (mined unless transact() raised).
ChainAfterTx(how, emitted, id) ==
    /\ how = "submit_raises" => emitted = <<>>
    /\ Subscribed(emitted) => Len(chainLogs) < MaxLogs
    /\ chainLogs' = IF Subscribed(emitted)
                    THEN Append(chainLogs, NewLog(emitted[1], id, TRUE))
                    ELSE chainLogs
    /\ blockNumber' = IF Subscribed(emitted) THEN blockNumber + 1 ELSE blockNumber

\* Auctionlet.bid
Bid(how_much, quantity, how, emitted) ==
    /\ held # <<>>
    /\ LET self == held[1]
           plan == BidPlan(is_splitting, self, how_much, quantity)
       IN IF plan = <<>>
          THEN /\ op' = [NoOp EXCEPT !.name = "bid",
                                     !.id = self.auctionlet_id,
                                     !.how_much = how_much,
                                     !.quantity = quantity,
                                     !.ret = "False"]
               /\ UNCHANGED << _our_tx_hashes, chainLogs, blockNumber >>
          ELSE /\ emitted \in BidLogs(plan[1])
               /\ ChainAfterTx(how, emitted, self.auctionlet_id)
               /\ _our_tx_hashes' =
                     IF how = "submit_raises" THEN _our_tx_hashes
                     ELSE bid_our_tx_hashes(_our_tx_hashes, TxHash(emitted))
               /\ op' = [NoOp EXCEPT
                             !.name = "bid",
                             !.id = self.auctionlet_id,
                             !.how_much = how_much,
                             !.quantity = quantity,
                             !.outcome = how,
                             !.calls = plan,
                             !.waited = (how # "submit_raises"),
                             !.tx_hash = IF how = "submit_raises" THEN <<>>
                                         ELSE << TxHash(emitted) >>,
                             !.emitted = emitted,
                             !.log = IF Subscribed(emitted)
                                     THEN << NewLog(emitted[1], self.auctionlet_id, TRUE) >>
                                     ELSE <<>>,
                             !.ret = ExceptReturnFalse(TryTransact(how, emitted))]
    /\ held' = << AuctionletAfterBid(held[1], quantity) >>
    /\ UNCHANGED << orderVars, is_splitting, handlerVars, chainAuction, feedPos >>

\* Auctionlet.claim -> AuctionManager._claim
Claim(how, emitted) ==
    /\ held # <<>>
    /\ emitted \in ClaimLogs
    /\ ChainAfterTx(how, emitted, held[1].auctionlet_id)
    /\ _our_tx_hashes' =
          IF how = "submit_raises" THEN _our_tx_hashes
          ELSE claim_our_tx_hashes(_our_tx_hashes, TxHash(emitted))
    /\ op' = [NoOp EXCEPT
                  !.name = "claim",
                  !.id = held[1].auctionlet_id,
                  !.outcome = how,
                  !.calls = << Call("claim", <<held[1].auctionlet_id>>) >>,
                  !.waited = (how # "submit_raises"),
                  !.tx_hash = IF how = "submit_raises" THEN <<>> ELSE << TxHash(emitted) >>,
                  !.emitted = emitted,
                  !.ret = ExceptReturnFalse(TryTransact(how, emitted))]
    /\ held' = << AuctionletAfterClaim(held[1]) >>
    /\ UNCHANGED << orderVars, is_splitting, handlerVars, chainAuction, feedPos >>

\* ---------------------------------------------------------------- discovery

\* Contract.pastEvents: the logs of `event` from block `fromBlock` on, oldest first.
PastEvents(event, fromBlock) ==
    SelectSeq(chainLogs, LAMBDA l : l.event = event /\ l.blockNumber >= fromBlock)

\* AuctionManager.discover_recent_auctionlets: the callback invocations it makes.
discover_recent_auctionlets(number_of_historical_blocks) ==
    LET start_block_number == blockNumber - number_of_historical_blocks
        news == PastEvents("LogNewAuction", start_block_number)
        splits == PastEvents("LogSplit", start_block_number)
    IN [i \in 1 .. Len(news) |->
            Invocation("on_auctionlet_discovered", <<news[i].args.base_id>>)]
       \o
       [i \in 1 .. Len(splits) |->
            Invocation("on_auctionlet_discovered", <<splits[i].args.split_id>>)]

Discover(number_of_historical_blocks) ==
    /\ op' = [NoOp EXCEPT !.name = "discover_recent_auctionlets",
                          !.id = number_of_historical_blocks,
                          !.callbacks = discover_recent_auctionlets(number_of_historical_blocks)]
    /\ UNCHANGED << orderVars, is_splitting, _our_tx_hashes, handlerVars, held, chainVars >>

\* -------------------------------------------------------------------- Next

Quantities == {<<>>} \cup {<<q>> : q \in Amounts}
EmittedLogs == {<<>>, <<"LogBid">>, <<"LogSplit">>, <<"Transfer">>}

AuctionletResults == {<<>>} \cup {<<i>> : i \in AuctionletInfos}
AuctionResults == {<<>>} \cup {<<i>> : i \in AuctionInfos}

\* The event feed: handler registration, the logs of other people's transactions
\* and of this client's own successful bids, and their delivery. The caller holds
\* auctionlet 1, bids one amount and registers one handler; every other way a bid
\* can go is in TxSpec.
FeedAuctionletInfo == <<1, 12, 1000, 3, 9, TRUE, TRUE>>

FeedHandlerValues == {None, "h1"}

Next ==
    \/ \E h \in FeedHandlerValues : on_new_auction(h)
    \/ \E h \in FeedHandlerValues : on_bid(h)
    \/ \E h \in FeedHandlerValues : on_split(h)
    \/ \E h \in FeedHandlerValues : on_auction_reversal(h)
    \/ \E e \in Events : ForeignTx(e, 1)
    \/ DeliverLog
    \/ GetAuctionlet(1, <<FeedAuctionletInfo>>)
    \/ \E q \in {<<>>, <<7>>}, e \in {<<"LogBid">>, <<"LogSplit">>} :
          Bid(5, q, "receipt_ok", e)

Spec == Init /\ [][Next]_vars

\* Registration and replacement of handlers (two of them, and None) while other
\* people's logs arrive and are delivered.
HandlerNext ==
    \/ \E h \in HandlerValues : on_new_auction(h)
    \/ \E h \in HandlerValues : on_bid(h)
    \/ \E h \in HandlerValues : on_split(h)
    \/ \E h \in HandlerValues : on_auction_reversal(h)
    \/ \E e \in Events : ForeignTx(e, 1)
    \/ DeliverLog

HandlerSpec == Init /\ [][HandlerNext]_vars

\* Every operation of the client side by side: registration, delivery, the read
\* calls, discovery, and bids and claims that succeed, that fail at submission and
\* that fail while waiting for the receipt. The LogBid and LogSplit logs on the chain
\* are those of the client's own bids, the other two events other people's.
ClientNext ==
    \/ \E h \in FeedHandlerValues : on_new_auction(h)
    \/ \E h \in FeedHandlerValues : on_bid(h)
    \/ \E h \in FeedHandlerValues : on_split(h)
    \/ \E h \in FeedHandlerValues : on_auction_reversal(h)
    \/ \E e \in {"LogNewAuction", "LogAuctionReversal"} : ForeignTx(e, 1)
    \/ DeliverLog
    \/ GetAuction(1)
    \/ GetAuctionlet(1, <<FeedAuctionletInfo>>)
    \/ GetAuctionlet(2, <<>>)
    \/ IsExpired("False")
    \/ AuctionletGetAuction
    \/ CanSplit
    \/ \E q \in {<<>>, <<7>>}, e \in {<<"LogBid">>, <<"LogSplit">>} :
          Bid(5, q, "receipt_ok", e)
    \/ \E how \in {"submit_raises", "wait_raises"}, e \in {<<>>, <<"LogBid">>} :
          Bid(5, <<>>, how, e)
    \/ \E how \in {"submit_raises", "wait_raises", "receipt_ok"}, e \in ClaimLogs :
          Claim(how, e)
    \/ Discover(1)

ClientSpec == Init /\ [][ClientNext]_vars

\* The caller's Auctionlet object over its life: fetched (the contract's data for the
\* same auctionlet changes between fetches), its parent auction resolved while the
\* auctions on the chain change, and bids and claims made through it that succeed or
\* fail.
SnapshotNext ==
    \/ \E a \in AuctionIds, v \in AuctionResults : ChainAuctionChange(a, v)
    \/ \E r \in AuctionletResults : GetAuctionlet(1, r)
    \/ AuctionletGetAuction
    \/ \E q \in {<<>>, <<7>>}, how \in {"submit_raises", "receipt_ok"},
          e \in {<<>>, <<"LogBid">>} : Bid(5, q, how, e)
    \/ \E how \in {"submit_raises", "receipt_ok"}, e \in ClaimLogs : Claim(how, e)

SnapshotSpec == Init /\ [][SnapshotNext]_vars

\* Discovery over a chain that holds other people's logs and this client's.
DiscoverNext ==
    \/ \E e \in Events, id \in AuctionletIds : ForeignTx(e, id)
    \/ GetAuctionlet(1, <<FeedAuctionletInfo>>)
    \/ \E q \in {<<>>, <<7>>}, e \in {<<"LogBid">>, <<"LogSplit">>} :
          Bid(5, q, "receipt_ok", e)
    \/ \E n \in Lookbacks : Discover(n)

DiscoverSpec == Init /\ [][DiscoverNext]_vars

\* The client's transactions: every way a bid or a claim can go.
TxNext ==
    \/ \E id \in AuctionletIds, r \in AuctionletResults : GetAuctionlet(id, r)
    \/ \E m \in Amounts, q \in Quantities, how \in TxHows, e \in EmittedLogs :
          Bid(m, q, how, e)
    \/ \E how \in TxHows, e \in EmittedLogs : Claim(how, e)

TxSpec == Init /\ [][TxNext]_vars

\* The client's read calls, against a chain whose auctions change.
ReadNext ==
    \/ \E a \in AuctionIds, v \in AuctionResults : ChainAuctionChange(a, v)
    \/ \E a \in AuctionIds : GetAuction(a)
    \/ \E id \in AuctionletIds, r \in AuctionletResults : GetAuctionlet(id, r)
    \/ \E r \in {Reverts, "True", "False"} : IsExpired(r)
    \/ AuctionletGetAuction
    \/ CanSplit

ReadSpec == Init /\ [][ReadNext]_vars

\* ------------------------------------------------------------------- Order
\* pymaker.zrx.Order, as spec.md sections 3, 4.1 and 6 and tests/pymaker/test_zrx.py
\* describe it. An Address is a sequence of hex digits 0 .. 15, a Wad its integer
\* value, a string a sequence of characters; the optional signature fields are
\* <<>> (None) or <<value>>. A JSON object is a record; JSON null is <<>>.

DigitChar == << "0", "1", "2", "3", "4", "5", "6", "7", "8", "9" >>
HexChar == DigitChar \o << "a", "b", "c", "d", "e", "f" >>

\* str(n) of a non-negative integer: its decimal digits
RECURSIVE ToDecimal(_)
ToDecimal(n) ==
    IF n < 10 THEN << DigitChar[n + 1] >>
    ELSE Append(ToDecimal(n \div 10), DigitChar[(n % 10) + 1])

DigitValue(c) == CHOOSE d \in 0 .. 9 : DigitChar[d + 1] = c
HexValue(c) == CHOOSE d \in 0 .. 15 : HexChar[d + 1] = c

\* int(s) of a decimal string
RECURSIVE FromDecimal(_)
FromDecimal(str) ==
    IF str = <<>> THEN 0
    ELSE 10 * FromDecimal(SubSeq(str, 1, Len(str) - 1)) + DigitValue(str[Len(str)])

\* The 0x-prefixed hex string of an address, and Address(string)
AddressToJson(address) ==
    << "0", "x" >> \o [i \in 1 .. Len(address) |-> HexChar[address[i] + 1]]
AddressFromJson(str) ==
    [i \in 1 .. Len(str) - 2 |-> HexValue(str[i + 2])]

\* to_json with makerFee and takerFee written from each other's field.
to_json_FeesSwapped(o) ==
    [ exchangeContractAddress |-> AddressToJson(o.exchange_contract_address),
      maker |-> AddressToJson(o.maker),
      taker |-> AddressToJson(o.taker),
      makerTokenAddress |-> AddressToJson(o.maker_token_address),
      takerTokenAddress |-> AddressToJson(o.taker_token_address),
      feeRecipient |-> AddressToJson(o.fee_recipient),
      makerTokenAmount |-> ToDecimal(o.maker_token_amount),
      takerTokenAmount |-> ToDecimal(o.taker_token_amount),
      makerFee |-> ToDecimal(o.taker_fee),
      takerFee |-> ToDecimal(o.maker_fee),
      expirationUnixTimestampSec |-> ToDecimal(o.expiration),
      salt |-> ToDecimal(o.salt),
      ecSignature |-> [ r |-> o.ec_signature_r,
                        s |-> o.ec_signature_s,
                        v |-> o.ec_signature_v ] ]

\* Order.to_json: the fixed key set of the wire format
to_json(o) ==
    [ exchangeContractAddress |-> AddressToJson(o.exchange_contract_address),
      maker |-> AddressToJson(o.maker),
      taker |-> AddressToJson(o.taker),
      makerTokenAddress |-> AddressToJson(o.maker_token_address),
      takerTokenAddress |-> AddressToJson(o.taker_token_address),
      feeRecipient |-> AddressToJson(o.fee_recipient),
      makerTokenAmount |-> ToDecimal(o.maker_token_amount),
      takerTokenAmount |-> ToDecimal(o.taker_token_amount),
      makerFee |-> ToDecimal(o.maker_fee),
      takerFee |-> ToDecimal(o.taker_fee),
      expirationUnixTimestampSec |-> ToDecimal(o.expiration),
      salt |-> ToDecimal(o.salt),
      ecSignature |-> [ r |-> o.ec_signature_r,
                        s |-> o.ec_signature_s,
                        v |-> o.ec_signature_v ] ]

\* to_json_without_fees that still writes the signature block.
to_json_without_fees_WithSignature(o) ==
    [ exchangeContractAddress |-> AddressToJson(o.exchange_contract_address),
      maker |-> AddressToJson(o.maker),
      taker |-> AddressToJson(o.taker),
      makerTokenAddress |-> AddressToJson(o.maker_token_address),
      takerTokenAddress |-> AddressToJson(o.taker_token_address),
      makerTokenAmount |-> ToDecimal(o.maker_token_amount),
      takerTokenAmount |-> ToDecimal(o.taker_token_amount),
      expirationUnixTimestampSec |-> ToDecimal(o.expiration),
      salt |-> ToDecimal(o.salt),
      ecSignature |-> [ r |-> o.ec_signature_r,
                        s |-> o.ec_signature_s,
                        v |-> o.ec_signature_v ] ]

\* Order.to_json_without_fees: the wire format less feeRecipient, makerFee, takerFee
\* and the ecSignature block
to_json_without_fees(o) ==
    [ exchangeContractAddress |-> AddressToJson(o.exchange_contract_address),
      maker |-> AddressToJson(o.maker),
      taker |-> AddressToJson(o.taker),
      makerTokenAddress |-> AddressToJson(o.maker_token_address),
      takerTokenAddress |-> AddressToJson(o.taker_token_address),
      makerTokenAmount |-> ToDecimal(o.maker_token_amount),
      takerTokenAmount |-> ToDecimal(o.taker_token_amount),
      expirationUnixTimestampSec |-> ToDecimal(o.expiration),
      salt |-> ToDecimal(o.salt) ]

\* The signature fields from_json reads: None when the ecSignature block is absent.
JsonSignature(data, field) ==
    IF "ecSignature" \in DOMAIN data THEN data.ecSignature[field] ELSE <<>>

\* Order.from_json(exchange, data); keys it does not know (orderHash) are ignored.
from_json(exchange, data) ==
    [ exchange |-> exchange,
      maker |-> AddressFromJson(data.maker),
      taker |-> AddressFromJson(data.taker),
      maker_fee |-> FromDecimal(data.makerFee),
      taker_fee |-> FromDecimal(data.takerFee),
      maker_token_amount |-> FromDecimal(data.makerTokenAmount),
      taker_token_amount |-> FromDecimal(data.takerTokenAmount),
      maker_token_address |-> AddressFromJson(data.makerTokenAddress),
      taker_token_address |-> AddressFromJson(data.takerTokenAddress),
      salt |-> FromDecimal(data.salt),
      fee_recipient |-> AddressFromJson(data.feeRecipient),
      expiration |-> FromDecimal(data.expirationUnixTimestampSec),
      exchange_contract_address |-> AddressFromJson(data.exchangeContractAddress),
      ec_signature_r |-> JsonSignature(data, "r"),
      ec_signature_s |-> JsonSignature(data, "s"),
      ec_signature_v |-> JsonSignature(data, "v") ]

\* The orders considered: an open taker, fees zero or not, signed or not.
ZeroAddress == <<0, 0>>
OrderAddresses == { ZeroAddress, <<9, 14>> }
Signatures ==
    { [r |-> <<>>, s |-> <<>>, v |-> <<>>],
      [r |-> << <<"0", "x", "d", "e">> >>, s |-> << <<"0", "x", "7", "4">> >>, v |-> <<28>>] }

Orders ==
    { [ exchange |-> None,
        maker |-> maker,
        taker |-> ZeroAddress,
        maker_fee |-> fees[1],
        taker_fee |-> fees[2],
        maker_token_amount |-> amounts[1],
        taker_token_amount |-> amounts[2],
        maker_token_address |-> <<3, 2>>,
        taker_token_address |-> <<14, 15>>,
        salt |-> salt,
        fee_recipient |-> fee_recipient,
        expiration |-> 42,
        exchange_contract_address |-> <<1, 2>>,
        ec_signature_r |-> sig.r,
        ec_signature_s |-> sig.s,
        ec_signature_v |-> sig.v ] :
      maker \in OrderAddresses, fee_recipient \in OrderAddresses,
      fees \in {0, 123} \X {0, 456}, amounts \in {7, 100} \X {20, 1005},
      salt \in {0, 670}, sig \in Signatures }

\* An order as a relayer sends it: with an orderHash, and without the ecSignature
\* block when it is unsigned.
WireJson(o) ==
    LET full == to_json(o)
        keys == IF o.ec_signature_v = <<>> THEN DOMAIN full \ {"ecSignature"}
                ELSE DOMAIN full
    IN [k \in keys \cup {"orderHash"} |->
            IF k = "orderHash" THEN <<"0", "x", "0", "2">> ELSE full[k]]

OrderInit ==
    /\ is_splitting = FALSE
    /\ ClientInit
    /\ order \in { <<o>> : o \in Orders }
    /\ json_order = <<>>
    /\ parsed = <<>>
    /\ other = <<>>

\* json_order = order.to_json()
ToJson ==
    /\ order # <<>>
    /\ json_order' = << to_json(order[1]) >>
    /\ parsed' = <<>>
    /\ op' = [NoOp EXCEPT !.name = "to_json"]
    /\ UNCHANGED << clientVars, order, other >>

\* The order arrives from a relayer.
ReceiveJson ==
    /\ order # <<>>
    /\ json_order' = << WireJson(order[1]) >>
    /\ parsed' = <<>>
    /\ op' = [NoOp EXCEPT !.name = "receive"]
    /\ UNCHANGED << clientVars, order, other >>

\* parsed = Order.from_json(None, json_order)
FromJson ==
    /\ json_order # <<>>
    /\ parsed' = << from_json(None, json_order[1]) >>
    /\ op' = [NoOp EXCEPT !.name = "from_json"]
    /\ UNCHANGED << clientVars, order, json_order, other >>

\* order.to_json_without_fees(), the object it returns left in op.obj
ToJsonWithoutFees ==
    /\ order # <<>>
    /\ op' = [NoOp EXCEPT !.name = "to_json_without_fees",
                          !.obj = << to_json_without_fees(order[1]) >>]
    /\ UNCHANGED << clientVars, orderVars >>

OrderNext ==
    \/ ToJson
    \/ ToJsonWithoutFees
    \/ ReceiveJson
    \/ FromJson

OrderSpec == OrderInit /\ [][OrderNext]_vars

\* ------------------------------------------------- Order equality and hash

\* Order.__hash__ over the fields of __eq__ and the bound exchange client as well.
Order_hash_WithExchange(self) ==
    << self.exchange, self.maker, self.taker, self.maker_fee, self.taker_fee,
       self.maker_token_amount, self.taker_token_amount, self.maker_token_address,
       self.taker_token_address, self.salt, self.fee_recipient, self.expiration,
       self.exchange_contract_address, self.ec_signature_r, self.ec_signature_s,
       self.ec_signature_v >>

\* Order.__eq__(self, other): field by field, the exchange client left out
__eq__(self, o) ==
    /\ self.maker = o.maker
    /\ self.taker = o.taker
    /\ self.maker_fee = o.maker_fee
    /\ self.taker_fee = o.taker_fee
    /\ self.maker_token_amount = o.maker_token_amount
    /\ self.taker_token_amount = o.taker_token_amount
    /\ self.maker_token_address = o.maker_token_address
    /\ self.taker_token_address = o.taker_token_address
    /\ self.salt = o.salt
    /\ self.fee_recipient = o.fee_recipient
    /\ self.expiration = o.expiration
    /\ self.exchange_contract_address = o.exchange_contract_address
    /\ self.ec_signature_r = o.ec_signature_r
    /\ self.ec_signature_s = o.ec_signature_s
    /\ self.ec_signature_v = o.ec_signature_v

\* Order.__hash__(self): the hash of the tuple of the fields __eq__ compares (the
\* hash of a tuple is a function of its elements' values; the tuple stands for it)
__hash__(self) ==
    << self.maker, self.taker, self.maker_fee, self.taker_fee,
       self.maker_token_amount, self.taker_token_amount, self.maker_token_address,
       self.taker_token_address, self.salt, self.fee_recipient, self.expiration,
       self.exchange_contract_address, self.ec_signature_r, self.ec_signature_s,
       self.ec_signature_v >>

\* `key in {member}` of a hash-based collection: the hashes are compared first and
\* the keys after
HashSetContains(member, key) ==
    __hash__(key) = __hash__(member) /\ __eq__(key, member)

\* The orders compared: one maker, signed or not, two salts, a maker fee or none;
\* the second order bound to no exchange client or to one.
ExchangeClients == {None, "exchange"}
MakerFees == {123, 124}
EqOrders ==
    { o \in Orders : /\ o.maker = <<9, 14>>
                     /\ o.fee_recipient = <<9, 14>>
                     /\ o.taker_fee = 456
                     /\ o.maker_token_amount = 100
                     /\ o.taker_token_amount = 20 }

EqInit ==
    /\ is_splitting = FALSE
    /\ ClientInit
    /\ order \in { <<o>> : o \in EqOrders }
    /\ other \in { << [o EXCEPT !.exchange = x] >> : o \in EqOrders, x \in ExchangeClients }
    /\ json_order = <<>>
    /\ parsed = <<>>

\* order1.maker_fee = fee
SetMakerFee(fee) ==
    /\ order' = << [order[1] EXCEPT !.maker_fee = fee] >>
    /\ op' = [NoOp EXCEPT !.name = "order1.maker_fee"]
    /\ UNCHANGED << clientVars, json_order, parsed, other >>

\* order2.maker_fee = fee
SetOtherMakerFee(fee) ==
    /\ other' = << [other[1] EXCEPT !.maker_fee = fee] >>
    /\ op' = [NoOp EXCEPT !.name = "order2.maker_fee"]
    /\ UNCHANGED << clientVars, json_order, parsed, order >>

\* order1 == order2
Eq ==
    /\ op' = [NoOp EXCEPT !.name = "__eq__", !.ret = PyBool(__eq__(order[1], other[1]))]
    /\ UNCHANGED << clientVars, orderVars >>

\* hash(order1), hash(order2)
Hash ==
    /\ op' = [NoOp EXCEPT !.name = "__hash__",
                          !.obj = << __hash__(order[1]), __hash__(other[1]) >>]
    /\ UNCHANGED << clientVars, orderVars >>

\* order2 in {order1}
Contains ==
    /\ op' = [NoOp EXCEPT !.name = "__contains__",
                          !.ret = PyBool(HashSetContains(order[1], other[1]))]
    /\ UNCHANGED << clientVars, orderVars >>

EqNext ==
    \/ \E fee \in MakerFees : SetMakerFee(fee)
    \/ \E fee \in MakerFees : SetOtherMakerFee(fee)
    \/ Eq
    \/ Hash
    \/ Contains

EqSpec == EqInit /\ [][EqNext]_vars

\* ===================================================================== claims

IsBid == op.name = "bid"
IsTx == op.name \in {"bid", "claim"}
IsDelivery == op.name = "deliver"

\* C1 (checked under Spec; the code violates it): when the subscription delivers a
\* LogNewAuction or LogBid log of a transaction this client submitted itself, the
\* registered handler is not invoked.
C1_OwnLogsSuppressed ==
    (IsDelivery /\ op.log[1].event \in {"LogNewAuction", "LogBid"} /\ op.log[1].ours)
        => op.callbacks = <<>>

\* C2 (TxSpec): bid with a quantity on a non-splitting manager returns False, issues
\* no transact().bid call and does not wait for a receipt.
C2_PartialBidRejected ==
    (IsBid /\ op.quantity # <<>> /\ ~is_splitting)
        => /\ op.ret = "False"
           /\ op.calls = <<>>
           /\ ~op.waited
           /\ op.tx_hash = <<>>
           /\ op.emitted = <<>>

C2_Witness == IsBid /\ op.quantity # <<>> /\ ~is_splitting /\ op.ret = "False"

\* C3 (TxSpec): in the three other cases of (is_splitting, quantity) bid submits
\* exactly one transaction: bid(id, how_much) when non-splitting with no quantity,
\* bid(id, how_much, sell_amount of the auctionlet) when splitting with no quantity,
\* bid(id, how_much, quantity) when splitting with a quantity.
C3_BidTransactionChosen ==
    IsBid =>
        /\ (~is_splitting /\ op.quantity = <<>>) =>
              op.calls = << [fn |-> "bid", args |-> <<held[1].auctionlet_id, op.how_much>>] >>
        /\ (is_splitting /\ op.quantity = <<>>) =>
              op.calls = << [fn |-> "bid",
                             args |-> <<held[1].auctionlet_id, op.how_much,
                                        held[1].sell_amount>>] >>
        /\ (is_splitting /\ op.quantity # <<>>) =>
              op.calls = << [fn |-> "bid",
                             args |-> <<held[1].auctionlet_id, op.how_much,
                                        op.quantity[1]>>] >>

C3_Witness ==
    /\ IsBid /\ is_splitting /\ op.quantity = <<>>
    /\ Len(op.calls) = 1 /\ op.calls[1].args[3] = held[1].sell_amount
    /\ op.calls[1].args[3] # op.how_much

\* C4 (TxSpec): claim and bid return True exactly when the transaction was submitted,
\* a receipt came back and its log list is present and non-empty; otherwise they
\* return False, and never let an exception reach the caller.
C4_TrueIffReceiptHasLogs ==
    IsTx =>
        /\ op.ret \in {"True", "False"}
        /\ op.ret = "True" <=>
              /\ Len(op.calls) = 1
              /\ op.waited
              /\ op.outcome = "receipt_ok"
              /\ Len(op.emitted) > 0

C4_Witness ==
    /\ op.name = "claim" /\ op.outcome = "receipt_ok" /\ op.emitted = <<>>
    /\ op.waited /\ op.ret = "False"

\* C5 (ReadSpec): when the contract call reverts get_auctionlet returns None and
\* is_expired returns None, neither raising; when it succeeds get_auctionlet returns
\* an Auctionlet with the requested id and is_expired the contract's boolean.
C5_RevertIsAbsent ==
    /\ op.name = "get_auctionlet" =>
          /\ op.outcome = Reverts => (op.ret = "None" /\ op.obj = <<>>)
          /\ op.outcome # Reverts =>
                (op.ret = "Auctionlet" /\ Len(op.obj) = 1 /\ op.obj[1].auctionlet_id = op.id)
    /\ op.name = "is_expired" =>
          /\ op.outcome = Reverts => op.ret = "None"
          /\ op.outcome # Reverts => op.ret = op.outcome

C5_Witness == op.name = "is_expired" /\ op.outcome = Reverts /\ op.ret = "None"

\* C6 (Spec): a delivered LogSplit log reaches the registered split handler with
\* (base_id, new_id, split_id) and a delivered LogAuctionReversal log the registered
\* reversal handler with auction_id, exactly once, also when the log's transaction is
\* the client's own.
C6_SplitAndReversalUnfiltered ==
    /\ (IsDelivery /\ op.log[1].event = "LogSplit" /\ _on_split_handler # None) =>
          op.callbacks = << [handler |-> _on_split_handler,
                             args |-> << op.log[1].args.base_id, op.log[1].args.new_id,
                                         op.log[1].args.split_id >>] >>
    /\ (IsDelivery /\ op.log[1].event = "LogAuctionReversal"
          /\ _on_auction_reversal_handler # None) =>
          op.callbacks = << [handler |-> _on_auction_reversal_handler,
                             args |-> << op.log[1].args.auction_id >>] >>

C6_Witness ==
    /\ IsDelivery /\ op.log[1].event = "LogSplit" /\ op.log[1].ours
    /\ Len(op.callbacks) = 1


\* How often discovery called the callback with identifier `id`.
Reported(id) ==
    Cardinality({ i \in 1 .. Len(op.callbacks) : op.callbacks[i].args = <<id>> })

\* The logs of the window of the discovery in op (its lookback is op.id).
InWindow(i) == chainLogs[i].blockNumber >= blockNumber - op.id

\* C7 (checked under DiscoverSpec; the code violates it): discovery calls the callback
\* exactly once for every auctionlet created in the window: the base_id of each
\* LogNewAuction log, and the new_id and the split_id of each LogSplit log.
C7_EveryCreatedAuctionletReported ==
    op.name = "discover_recent_auctionlets" =>
        \A i \in 1 .. Len(chainLogs) :
            InWindow(i) =>
                /\ chainLogs[i].event = "LogNewAuction" =>
                      Reported(chainLogs[i].args.base_id) = 1
                /\ chainLogs[i].event = "LogSplit" =>
                      /\ Reported(chainLogs[i].args.split_id) = 1
                      /\ Reported(chainLogs[i].args.new_id) = 1

\* C8 (ReadSpec): once an Auctionlet has resolved its parent Auction it keeps it: a
\* get_auction() on it issues no contract call and returns the cached Auction, and
\* nothing but fetching a new Auctionlet object changes the object; the first
\* successful get_auction() is the one that queries the contract and fills the cache.
C8_ParentAuctionCached ==
    [][ /\ (held # <<>> /\ held[1]._auction # <<>>) =>
              /\ op'.name = "auctionlet.get_auction" =>
                    /\ op'.calls = <<>>
                    /\ op'.ret = "Auction"
                    /\ op'.obj = held[1]._auction
              /\ op'.name # "get_auctionlet" => held' = held
        /\ (held # <<>> /\ held[1]._auction = <<>>
              /\ op'.name = "auctionlet.get_auction") =>
              /\ op'.calls = << [fn |-> "getAuctionInfo", args |-> <<held[1].auction_id>>] >>
              /\ op'.ret = "Auction" => held'[1]._auction = op'.obj
              /\ op'.ret # "Auction" => held' = held
      ]_vars

\* The cached parent is returned although the auction on the chain now differs.
C8_Witness ==
    /\ op.name = "auctionlet.get_auction" /\ op.cached /\ op.calls = <<>>
    /\ chainAuction[op.id] # <<>>
    /\ op.obj[1].sell_amount # chainAuction[op.id][1][7]

\* C9 (ReadSpec): every AuctionManager.get_auction(id) issues one getAuctionInfo(id)
\* call and, when the call succeeds, returns an Auction built from what the contract
\* holds at that moment.
C9_GetAuctionNotCached ==
    op.name = "get_auction" =>
        /\ op.calls = << [fn |-> "getAuctionInfo", args |-> <<op.id>>] >>
        /\ chainAuction[op.id] = <<>> => (op.ret = "raised" /\ op.obj = <<>>)
        /\ chainAuction[op.id] # <<>> =>
              /\ op.ret = "Auction"
              /\ Len(op.obj) = 1
              /\ op.obj[1].auction_id = op.id
              /\ op.obj[1].creator = chainAuction[op.id][1][1]
              /\ op.obj[1].selling = chainAuction[op.id][1][2]
              /\ op.obj[1].buying = chainAuction[op.id][1][3]
              /\ op.obj[1].start_bid = chainAuction[op.id][1][4]
              /\ op.obj[1].min_increase = chainAuction[op.id][1][5]
              /\ op.obj[1].min_decrease = chainAuction[op.id][1][6]
              /\ op.obj[1].sell_amount = chainAuction[op.id][1][7]
              /\ op.obj[1].ttl = chainAuction[op.id][1][8]
              /\ op.obj[1].reversed = chainAuction[op.id][1][9]
              /\ op.obj[1].unsold = chainAuction[op.id][1][10]

\* A get_auction that returns the auction as changed on the chain, while the caller's
\* Auctionlet still caches the auction as it was.
C9_Witness ==
    /\ op.name = "get_auction" /\ op.ret = "Auction"
    /\ held # <<>> /\ held[1]._auction # <<>>
    /\ held[1].auction_id = op.id
    /\ held[1]._auction # op.obj


\* Field-by-field equality of two orders on the data fields (all but `exchange`).
SameDataFields(a, b) ==
    /\ a.maker = b.maker
    /\ a.taker = b.taker
    /\ a.maker_fee = b.maker_fee
    /\ a.taker_fee = b.taker_fee
    /\ a.maker_token_amount = b.maker_token_amount
    /\ a.taker_token_amount = b.taker_token_amount
    /\ a.maker_token_address = b.maker_token_address
    /\ a.taker_token_address = b.taker_token_address
    /\ a.salt = b.salt
    /\ a.fee_recipient = b.fee_recipient
    /\ a.expiration = b.expiration
    /\ a.exchange_contract_address = b.exchange_contract_address
    /\ a.ec_signature_r = b.ec_signature_r
    /\ a.ec_signature_s = b.ec_signature_s
    /\ a.ec_signature_v = b.ec_signature_v

\* C10 (OrderSpec): from_json(to_json(order)) equals order on every data field, also
\* when the fees are zero and when the signature is absent.
C10_JsonRoundTrip ==
    (op.name = "from_json" /\ json_order = << to_json(order[1]) >>)
        => SameDataFields(parsed[1], order[1])

\* A round trip of an unsigned order with zero fees.
C10_Witness ==
    /\ op.name = "from_json" /\ json_order = << to_json(order[1]) >>
    /\ order[1].maker_fee = 0 /\ order[1].taker_fee = 0
    /\ order[1].ec_signature_r = <<>> /\ order[1].ec_signature_v = <<>>
    /\ parsed[1].ec_signature_v = <<>>
    /\ parsed[1].maker_token_amount = 100

\* C11 (OrderSpec): to_json_without_fees(order) has exactly the keys
\* exchangeContractAddress, maker, taker, makerTokenAddress, takerTokenAddress,
\* makerTokenAmount, takerTokenAmount, expirationUnixTimestampSec and salt, and so
\* none of makerFee, takerFee, feeRecipient, ecSignature, whatever the order's fees
\* and signature are.
C11_WithoutFeesKeys ==
    op.name = "to_json_without_fees" =>
        /\ DOMAIN op.obj[1] =
              { "exchangeContractAddress", "maker", "taker", "makerTokenAddress",
                "takerTokenAddress", "makerTokenAmount", "takerTokenAmount",
                "expirationUnixTimestampSec", "salt" }
        /\ {"makerFee", "takerFee", "feeRecipient", "ecSignature"} \cap DOMAIN op.obj[1] = {}

\* The fee-less form of a signed order with non-zero fees and a fee recipient.
C11_Witness ==
    /\ op.name = "to_json_without_fees"
    /\ order[1].maker_fee # 0 /\ order[1].taker_fee # 0
    /\ order[1].fee_recipient # ZeroAddress
    /\ order[1].ec_signature_r # <<>> /\ order[1].ec_signature_v = <<28>>
    /\ op.obj[1].makerTokenAmount = <<"1", "0", "0">>
\* C12 (EqSpec): two orders are equal exactly when all their data fields are equal,
\* whatever exchange client each is bound to; equal orders have equal hashes, so an
\* order is found in a hash-based collection exactly when an equal order is in it.
C12_EqualityStructuralHashConsistent ==
    /\ op.name = "__eq__" =>
          (op.ret = "True" <=> SameDataFields(order[1], other[1]))
    /\ op.name = "__hash__" =>
          (SameDataFields(order[1], other[1]) => op.obj[1] = op.obj[2])
    /\ op.name = "__contains__" =>
          (op.ret = "True" <=> SameDataFields(order[1], other[1]))

\* Both orders have had their maker fee changed to 124 and compare equal again,
\* though bound to different exchange clients.
C12_Witness ==
    /\ op.name = "__eq__" /\ op.ret = "True"
    /\ order[1].maker_fee = 124 /\ other[1].maker_fee = 124
    /\ order[1].exchange # other[1].exchange
    /\ order[1].ec_signature_v = <<28>>
\* The handler slot of an event type, and the arguments its handler is called with.
SlotOf(event) ==
    CASE event = "LogNewAuction" -> _on_new_auction_handler
      [] event = "LogBid" -> _on_bid_handler
      [] event = "LogSplit" -> _on_split_handler
      [] event = "LogAuctionReversal" -> _on_auction_reversal_handler

HandlerArgs(log) ==
    CASE log.event = "LogNewAuction" -> << log.args.base_id >>
      [] log.event = "LogBid" -> << log.args.auctionlet_id >>
      [] log.event = "LogSplit" -> << log.args.base_id, log.args.new_id, log.args.split_id >>
      [] log.event = "LogAuctionReversal" -> << log.args.auction_id >>

\* C13 (HandlerSpec): each event type has one handler slot. A registration puts its
\* handler in the slot of its event type, whatever was there, leaves the three other
\* slots alone and invokes nothing; nothing but a registration changes a slot. A
\* delivery hands the next log of the feed to the handler in the slot of the log's
\* event type exactly once and to no other handler; with no handler in the slot it
\* invokes nothing, and the feed moves on, so the log is not delivered again.
C13_SingleHandlerSlot ==
    [][ /\ op'.name = "on_new_auction" =>
              /\ _on_new_auction_handler' = op'.handler[1]
              /\ UNCHANGED << _on_bid_handler, _on_split_handler,
                              _on_auction_reversal_handler >>
        /\ op'.name = "on_bid" =>
              /\ _on_bid_handler' = op'.handler[1]
              /\ UNCHANGED << _on_new_auction_handler, _on_split_handler,
                              _on_auction_reversal_handler >>
        /\ op'.name = "on_split" =>
              /\ _on_split_handler' = op'.handler[1]
              /\ UNCHANGED << _on_new_auction_handler, _on_bid_handler,
                              _on_auction_reversal_handler >>
        /\ op'.name = "on_auction_reversal" =>
              /\ _on_auction_reversal_handler' = op'.handler[1]
              /\ UNCHANGED << _on_new_auction_handler, _on_bid_handler,
                              _on_split_handler >>
        /\ op'.name \notin {"on_new_auction", "on_bid", "on_split", "on_auction_reversal"} =>
              UNCHANGED handlerVars
        /\ op'.name = "deliver" =>
              /\ feedPos' = feedPos + 1
              /\ op'.log = << chainLogs[feedPos + 1] >>
              /\ op'.callbacks =
                    IF SlotOf(chainLogs[feedPos + 1].event) = None
                    THEN <<>>
                    ELSE << [handler |-> SlotOf(chainLogs[feedPos + 1].event),
                             args |-> HandlerArgs(chainLogs[feedPos + 1])] >>
        /\ op'.name # "deliver" =>
              /\ feedPos' = feedPos
              /\ op'.callbacks = <<>>
      ]_vars

\* The second of two LogBid logs goes to h2 alone, while h1 is registered for new
\* auctions and for splits; the first was delivered before.
C13_Witness ==
    /\ IsDelivery /\ feedPos = 2
    /\ chainLogs[1].event = "LogBid" /\ op.log[1].event = "LogBid"
    /\ op.callbacks = << [handler |-> "h2", args |-> <<1>>] >>
    /\ _on_new_auction_handler = "h1" /\ _on_split_handler = "h1"

\* A LogSplit log delivered while no split handler is registered (one is, for bids):
\* nothing is invoked.
C13_DroppedWitness ==
    /\ IsDelivery /\ op.log[1].event = "LogSplit" /\ op.callbacks = <<>>
    /\ _on_split_handler = None /\ _on_bid_handler = "h1"
\* C14 (ClientSpec): the set of the client's own transaction hashes is empty in every
\* reachable state: no bid, claim, read call, discovery, registration or delivery
\* adds to it or removes from it.
C14_OwnHashesNeverRecorded ==
    _our_tx_hashes = {}

\* A bid has succeeded, transact() returned the hash of the transaction whose LogBid
\* log is now on the chain, and the set is empty all the same.
C14_Witness ==
    /\ IsBid /\ op.ret = "True" /\ op.emitted = <<"LogBid">>
    /\ op.tx_hash = << chainLogs[Len(chainLogs)].transactionHash >>
    /\ chainLogs[Len(chainLogs)].ours
    /\ _our_tx_hashes = {}
\* C15 (SnapshotSpec): bid and claim, whether they return True or False, leave the
\* Auctionlet object as it was: auctionlet_id, auction_id, last_bidder, last_bid_time,
\* buy_amount, sell_amount, unclaimed, base and the cached parent auction. A full bid
\* on a splitting manager therefore bids on the sell_amount the object was built
\* with, also after earlier bids through the same object.
C15_BidClaimKeepSnapshot ==
    [][ op'.name \in {"bid", "claim"} =>
            /\ held'[1].auctionlet_id = held[1].auctionlet_id
            /\ held'[1].auction_id = held[1].auction_id
            /\ held'[1].last_bidder = held[1].last_bidder
            /\ held'[1].last_bid_time = held[1].last_bid_time
            /\ held'[1].buy_amount = held[1].buy_amount
            /\ held'[1].sell_amount = held[1].sell_amount
            /\ held'[1].unclaimed = held[1].unclaimed
            /\ held'[1].base = held[1].base
            /\ held'[1]._auction = held[1]._auction
            /\ held' = held
            /\ (op'.name = "bid" /\ is_splitting /\ op'.quantity = <<>>) =>
                  op'.calls = << [fn |-> "bid",
                                  args |-> << held[1].auctionlet_id, op'.how_much,
                                              held[1].sell_amount >>] >>
      ]_vars

\* The second successful bid through one Auctionlet object on a splitting manager: a
\* full bid, on the sell_amount of the snapshot, the object still caching a parent
\* auction that has since changed on the chain.
C15_Witness ==
    /\ IsBid /\ is_splitting /\ op.quantity = <<>> /\ op.ret = "True"
    /\ Len(chainLogs) = 2 /\ chainLogs[1].ours /\ chainLogs[2].ours
    /\ op.calls[1].args[3] = held[1].sell_amount
    /\ held[1]._auction # <<>>
    /\ chainAuction[held[1].auction_id] # <<>>
    /\ chainAuction[held[1].auction_id][1][7] # held[1]._auction[1].sell_amount

====
